---- MODULE Spec2Model ----
(***************************************************************************)
(* Model of the ai-word-card flashcard application: the local content      *)
(* store (storageService.ts), the resumable batch generator                *)
(* (processAndGenerateWords in geminiService.ts) and the pages that write  *)
(* the store (HomePage, CreationPage, EditDeckPage, App).                  *)
(*                                                                         *)
(* JSON values that can occur as a deck membership entry or as a word card *)
(* are records with one fixed set of fields.  A string (a card id in a     *)
(* current-format membership list) has kind "str" and its text in chars;   *)
(* an object has kind "obj".  A property that an object does not have, and *)
(* every property read of a string, is Undefined (0 for the id).           *)
(***************************************************************************)
EXTENDS Integers, Sequences, FiniteSets, TLC

\* ---------------------------------------------------------------- bounds
MaxInput == 3
MaxId == 4
MaxInvocations == 2

\* ------------------------------------------------------ values and helpers
Undefined == "undefined"
NoId == 0

Words == {"a", "b", "c"}
RawStrings == {"a", "b", "c", "A", " b", " "}
LangPairs == {<<"en", "zh">>, <<"fr", "en">>}

\* String.prototype.trim on the strings of the model
Trim(s) == CASE s = " b" -> "b" [] s = " " -> "" [] OTHER -> s
\* String.prototype.toLowerCase on the strings of the model
ToLowerCase(s) == CASE s = "A" -> "a" [] s = "B" -> "b" [] s = "C" -> "c" [] OTHER -> s
\* order of the words under Array.prototype.sort (UTF-16 code units)
Rank(s) == CASE s = "A" -> 1 [] s = "B" -> 2 [] s = "C" -> 3
             [] s = "a" -> 4 [] s = "b" -> 5 [] s = "c" -> 6 [] OTHER -> 0

Range(f) == {f[k] : k \in DOMAIN f}

RECURSIVE Dedupe(_)
\* [...new Set(list)]: insertion order, first occurrence kept
Dedupe(list) ==
  IF list = <<>> THEN <<>>
  ELSE LET init == Dedupe(SubSeq(list, 1, Len(list) - 1))
           last == list[Len(list)]
       IN IF last \in Range(init) THEN init ELSE Append(init, last)

RECURSIVE Insert(_, _)
Insert(sorted, w) ==
  IF sorted = <<>> THEN <<w>>
  ELSE IF Rank(w) < Rank(Head(sorted)) THEN <<w>> \o sorted
  ELSE <<Head(sorted)>> \o Insert(Tail(sorted), w)

RECURSIVE Sort(_)
\* Array.prototype.sort without comparator
Sort(list) == IF list = <<>> THEN <<>> ELSE Insert(Sort(Tail(list)), Head(list))

IsNonEmpty(s) == s # ""

\* words.map(w => w.trim().toLowerCase()).filter(Boolean), then new Set
Normalize(words) ==
  Dedupe(SelectSeq([k \in DOMAIN words |-> ToLowerCase(Trim(words[k]))], IsNonEmpty))

\* ------------------------------------------------------------ JSON records
WordCard(id, word, tl, nl, defs, audio) ==
  [kind |-> "obj", chars |-> 0, id |-> id, word |-> word,
   targetLanguage |-> tl, nativeLanguage |-> nl,
   definitions |-> defs, audioPronunciation |-> audio]

\* a string value (a card id stored in a current-format membership list)
IdString(id) ==
  [kind |-> "str", chars |-> id, id |-> NoId, word |-> Undefined,
   targetLanguage |-> Undefined, nativeLanguage |-> Undefined,
   definitions |-> Undefined, audioPronunciation |-> Undefined]

CardDeck(id, cards, tl, nl) ==
  [id |-> id, cards |-> cards, targetLanguage |-> tl, nativeLanguage |-> nl]

\* variant: the default of the native language taken from the target language
migrateWordCard_chained(card) ==
  [kind |-> "obj", chars |-> card.chars, id |-> card.id, word |-> card.word,
   targetLanguage |-> IF card.targetLanguage = Undefined THEN "en" ELSE card.targetLanguage,
   nativeLanguage |-> IF card.targetLanguage = Undefined THEN "zh" ELSE "en",
   definitions |-> IF card.definitions = Undefined THEN "[]" ELSE card.definitions,
   audioPronunciation |-> card.audioPronunciation]

\* spread of the value into a new object, then the defaults
migrateWordCard(card) ==
  [kind |-> "obj", chars |-> card.chars, id |-> card.id, word |-> card.word,
   targetLanguage |-> IF card.targetLanguage = Undefined THEN "en" ELSE card.targetLanguage,
   nativeLanguage |-> IF card.nativeLanguage = Undefined THEN "zh" ELSE card.nativeLanguage,
   definitions |-> IF card.definitions = Undefined THEN "[]" ELSE card.definitions,
   audioPronunciation |-> card.audioPronunciation]

migrateDeck(deck) ==
  [id |-> deck.id,
   cards |-> [k \in DOMAIN deck.cards |-> migrateWordCard(deck.cards[k])],
   targetLanguage |-> IF deck.targetLanguage = Undefined THEN "en" ELSE deck.targetLanguage,
   nativeLanguage |-> IF deck.nativeLanguage = Undefined THEN "zh" ELSE deck.nativeLanguage]

migrateStory(story) ==
  [id |-> story.id, deckId |-> story.deckId,
   targetLanguage |-> IF story.targetLanguage = Undefined THEN "en" ELSE story.targetLanguage,
   nativeLanguage |-> IF story.nativeLanguage = Undefined THEN "zh" ELSE story.nativeLanguage]

\* ------------------------------------------------------------------- state
VARIABLES
  lsDecks,      \* localStorage 'flashcardDecks'
  lsWords,      \* localStorage 'flashcardWords'
  lsStories,    \* localStorage 'flashcardStories'
  lsDraft,      \* localStorage 'word_generation_draft': <<>> or <<draft>>
  nextId,       \* the next identifier uuidv4 returns
  pc,           \* position of the processAndGenerateWords invocation
  caller,       \* who awaits the invocation
  uniqueInputWords, generatedCards, alreadyGeneratedWords, existingWordData,
  i, cardData, targetLanguage, nativeLanguage,
  error,        \* what the invocation threw
  dataCalls,    \* generateFlashcardDataForWord calls of the invocation, per word
  speechCalls,  \* generateSpeech calls of the invocation, per word
  draftAtStart, \* the checkpoint slot when the invocation began
  knownAtStart, \* the keys of existingWordData when the loop began
  checkpointed, \* how many cards the invocation's last checkpoint write held
  invocations,  \* invocations begun so far
  view,         \* App: the page shown
  hDecks, hStories, hWords,  \* HomePage: decks, stories, myWords
  initialDeck,  \* EditDeckPage: the deck passed by App, <<>> or <<deck>>
  deck,         \* EditDeckPage: the deck being edited, <<>> or <<deck>>
  shownIds,     \* EditDeckPage: the keys of allWordsMap
  debounce,     \* EditDeckPage: the deck the pending timer will write, or <<>>
  lsDeckDraft,  \* localStorage 'draft_deck_<id>', per deck id: <<>> or <<deck>>
  storyDeck,    \* App: generatingStoryForDeck, <<>> or <<deck>>
  storyPc,      \* GenerateStoryPage.handleGenerate: "idle" or "inflight"
  storyReq,     \* the deck the call in flight was started for
  editingWords, \* App: the cards passed to EditWordsPage, <<>> or <<cards>>
  wordsEdit,    \* EditWordsPage: the words being edited, <<>> or <<cards>>
  wordsDebounce, \* EditWordsPage: the draft the pending timer will write, or <<>>
  lsWordsDraft, \* localStorage 'draft_edit_words', <<>> or <<draft>>
  callerAlive,  \* the page that called the generator is still mounted
  exportFile,   \* the last downloaded backup file, <<>> or <<data>>
  storeAtExport, \* the three collections as stored when that file was written
  abandoned,    \* an earlier processAndGenerateWords call still in flight, whose
                \* page the user has left: <<>> or <<its locals>>
  sessionQueue, \* StudyPage: the cards of the round
  learningQueue, \* StudyPage: the cards marked 'learning' in the round
  currentIndex, \* StudyPage: index of the shown card, from 0
  isFlipped,    \* StudyPage: the card shows its back
  sessionComplete, \* StudyPage: the session is over
  isTransitioning, \* StudyPage: the 300 ms transition is running
  advanceTimer  \* StudyPage: the pending transition timer, <<>> or <<what its
                \* closure captured>>

storeVars == <<lsDecks, lsWords, lsStories>>
genVars == <<lsDraft, nextId, pc, caller, uniqueInputWords, generatedCards,
             alreadyGeneratedWords, existingWordData, i, cardData,
             targetLanguage, nativeLanguage, error, dataCalls, speechCalls,
             draftAtStart, knownAtStart, checkpointed, invocations>>
appVars == <<view, hDecks, hStories, hWords, initialDeck, deck, shownIds, debounce,
             lsDeckDraft, storyDeck, storyPc, storyReq, editingWords, wordsEdit,
             wordsDebounce, lsWordsDraft, callerAlive, exportFile, storeAtExport,
             abandoned, sessionQueue, learningQueue, currentIndex, isFlipped,
             sessionComplete, isTransitioning, advanceTimer>>
vars == <<storeVars, genVars, appVars>>

\* ----------------------------------------------------------- content store
\* JSON.parse of the stored text, then the migration of every record
readDecks(stored) == [k \in DOMAIN stored |-> migrateDeck(stored[k])]
readWords(stored) == [k \in DOMAIN stored |-> migrateWordCard(stored[k])]
readStories(stored) == [k \in DOMAIN stored |-> migrateStory(stored[k])]
getDecks == readDecks(lsDecks)
getWords == readWords(lsWords)
getStories == readStories(lsStories)


\* ------------------------------------------------ processAndGenerateWords
EmptyMap == [w \in {} |-> IdString(NoId)]
NoCardData == IdString(NoId)
NoCalls == [w \in Words |-> 0]

RECURSIVE FlattenCards(_)
\* the cards of the decks in forEach order
FlattenCards(decks) ==
  IF decks = <<>> THEN <<>> ELSE Head(decks).cards \o FlattenCards(Tail(decks))

\* variant: the Words collection scanned before the decks
storedCardsInScanOrder_wordsFirst(allDecks, allWords) == allWords \o FlattenCards(allDecks)

\* the order in which the stored cards are offered to existingWordData
storedCardsInScanOrder(allDecks, allWords) == FlattenCards(allDecks) \o allWords

\* const { id, ...data } = card
StripId(card) == [card EXCEPT !.id = NoId]

\* if (!existingWordData.has(key)) existingWordData.set(key, data), over cards
FirstWins(cards) ==
  [w \in {ToLowerCase(cards[k].word) : k \in DOMAIN cards} |->
     LET k == CHOOSE k \in DOMAIN cards :
                /\ ToLowerCase(cards[k].word) = w
                /\ \A j \in 1..(k - 1) : ToLowerCase(cards[j].word) # w
     IN StripId(cards[k])]

\* existingWordData.set(word, data)
MapSet(map, word, data) ==
  [w \in (DOMAIN map) \cup {word} |-> IF w = word THEN data ELSE map[w]]

\* card.word.toLowerCase() throws a TypeError when card.word is undefined
LookupBuildThrows(cards) == \E k \in DOMAIN cards : cards[k].word = Undefined

\* variant: the two lists compared without sorting
draftMatches_ordered(draft, unique) == draft.inputWords = unique
\* variant: any stored draft adopted
draftMatches_always(draft, unique) == TRUE

\* JSON.stringify(draft.inputWords.sort()) === JSON.stringify(uniqueInputWords.sort())
draftMatches(draft, unique) == Sort(draft.inputWords) = Sort(unique)

\* new Set(generatedCards.map(c => c.word.toLowerCase()))
wordsOfCards(cards) == {ToLowerCase(cards[k].word) : k \in DOMAIN cards}

\* variant: no word skipped
skipSet_none(cards) == {}

\* which words the loop skips as already generated
skipSet(cards) == wordsOfCards(cards)

\* { id: uuidv4(), ...cardData }
reusedCard(id, data) == [data EXCEPT !.id = id]

\* what generateFlashcardDataForWord resolves to for the word
generateFlashcardDataForWord(word, tl, nl) ==
  [WordCard(NoId, word, tl, nl, "gen", Undefined) EXCEPT !.audioPronunciation = Undefined]

\* { id: uuidv4(), ...cardData, audioPronunciation, image: undefined }
newCard(id, data, audio) == [data EXCEPT !.id = id, !.audioPronunciation = audio]

\* variant: only the newest card saved
draftToSave_lastOnly(unique, cards) ==
  <<[inputWords |-> unique, generatedCards |-> <<cards[Len(cards)]>>]>>

\* localStorage.setItem(DRAFT_KEY, JSON.stringify(draftToSave))
draftToSave(unique, cards) == <<[inputWords |-> unique, generatedCards |-> cards]>>

\* variant: the slot left alone after the loop
draftAfterLoop_keep(draftNow) == draftNow

\* localStorage.removeItem(DRAFT_KEY) after the loop
draftAfterLoop(draftNow) == <<>>

\* variant: the reuse path saves the draft too
draftAfterReuse_saved(draftNow, unique, cards) ==
  <<[inputWords |-> unique, generatedCards |-> cards]>>

\* the slot after a word was completed on the reuse path (no write there)
draftAfterReuse(draftNow, unique, cards) == draftNow

RECURSIVE NextIndex(_, _, _)
\* the first index from k on whose word is not skipped by `continue`
NextIndex(k, unique, skip) ==
  IF k > Len(unique) THEN k
  ELSE IF unique[k] \in skip THEN NextIndex(k + 1, unique, skip)
  ELSE k

\* The loop from index k up to its next await, or to the return; id is the
\* identifier the next uuidv4() call returns.
Continue(k, unique, cards, skip, map, draftNow, calls, id) ==
  LET j == NextIndex(k, unique, skip) IN
  /\ i' = j
  /\ existingWordData' = map
  /\ IF j > Len(unique)
     THEN /\ lsDraft' = draftAfterLoop(draftNow)
          /\ generatedCards' = cards
          /\ pc' = "returned"
          /\ dataCalls' = calls
          /\ nextId' = id
     ELSE IF unique[j] \in DOMAIN map
     THEN /\ generatedCards' = Append(cards, reusedCard(id, map[unique[j]]))
          /\ lsDraft' = draftAfterReuse(draftNow, unique,
                                        Append(cards, reusedCard(id, map[unique[j]])))
          /\ pc' = "awaitTimer"
          /\ dataCalls' = calls
          /\ nextId' = id + 1
     ELSE /\ generatedCards' = cards
          /\ lsDraft' = draftNow
          /\ dataCalls' = [calls EXCEPT ![unique[j]] = @ + 1]
          /\ pc' = "awaitData"
          /\ nextId' = id

\* identifiers the abandoned call may still draw
AbandonedIds ==
  IF abandoned = <<>> THEN 0
  ELSE Cardinality({k \in DOMAIN abandoned[1].unique :
                      /\ k >= abandoned[1].i
                      /\ k > abandoned[1].i \/ abandoned[1].pc # "awaitTimer"
                      /\ abandoned[1].unique[k] \notin abandoned[1].skip})
       + (IF abandoned[1].caller = "createDeck" THEN 1 ELSE 0)

\* Lines 222-271: from the call to the first await (or to the throw / return).
BeginCall(words, tl, nl, who, reserve) ==
  LET unique0 == Normalize(words)
      hasDraft == lsDraft # <<>>
      unique == IF hasDraft THEN Sort(unique0) ELSE unique0
      adopt == hasDraft /\ draftMatches(lsDraft[1], unique0)
      cards0 == IF adopt THEN lsDraft[1].generatedCards ELSE <<>>
      skip == skipSet(cards0)
      stored == storedCardsInScanOrder(getDecks, getWords)
  IN
  /\ nextId + Cardinality(Range(unique) \ skip) + reserve + AbandonedIds <= MaxId + 1
  /\ caller' = who
  /\ uniqueInputWords' = unique
  /\ alreadyGeneratedWords' = skip
  /\ targetLanguage' = tl
  /\ nativeLanguage' = nl
  /\ cardData' = NoCardData
  /\ speechCalls' = NoCalls
  /\ draftAtStart' = lsDraft
  /\ checkpointed' = 0
  /\ IF LookupBuildThrows(stored)
     THEN /\ pc' = "failed"
          /\ error' = "TypeError"
          /\ generatedCards' = cards0
          /\ existingWordData' = EmptyMap
          /\ knownAtStart' = {}
          /\ i' = 0
          /\ dataCalls' = NoCalls
          /\ UNCHANGED <<lsDraft, nextId>>
     ELSE /\ error' = "none"
          /\ knownAtStart' = DOMAIN FirstWins(stored)
          /\ Continue(1, unique, cards0, skip, FirstWins(stored), lsDraft, NoCalls, nextId)

\* processAndGenerateWords called while no other call is in flight
Begin(words, tl, nl, who, reserve) ==
  /\ pc = "idle"
  /\ BeginCall(words, tl, nl, who, reserve)

\* The 50 ms timer of the reuse path fires: the loop goes on.
TimerResolves ==
  /\ pc = "awaitTimer"
  /\ Continue(i + 1, uniqueInputWords, generatedCards, alreadyGeneratedWords,
              existingWordData, lsDraft, dataCalls, nextId)
  /\ UNCHANGED <<storeVars, appVars, caller, uniqueInputWords, alreadyGeneratedWords,
                 cardData, targetLanguage, nativeLanguage, error, speechCalls,
                 draftAtStart, knownAtStart, checkpointed, invocations>>

\* generateFlashcardDataForWord resolves: generateSpeech is called.
DataResolves ==
  /\ pc = "awaitData"
  /\ cardData' = generateFlashcardDataForWord(uniqueInputWords[i], targetLanguage,
                                              nativeLanguage)
  /\ speechCalls' = [speechCalls EXCEPT ![uniqueInputWords[i]] = @ + 1]
  /\ pc' = "awaitSpeech"
  /\ UNCHANGED <<storeVars, appVars, lsDraft, nextId, caller, uniqueInputWords, generatedCards,
                 alreadyGeneratedWords, existingWordData, i, targetLanguage,
                 nativeLanguage, error, dataCalls, draftAtStart, knownAtStart,
                 checkpointed, invocations>>

\* generateFlashcardDataForWord throws: the error leaves processAndGenerateWords.
DataThrows ==
  /\ pc = "awaitData"
  /\ pc' = "failed"
  /\ error' = "remote"
  /\ UNCHANGED <<storeVars, appVars, lsDraft, nextId, caller, uniqueInputWords, generatedCards,
                 alreadyGeneratedWords, existingWordData, i, cardData, targetLanguage,
                 nativeLanguage, dataCalls, speechCalls, draftAtStart, knownAtStart,
                 checkpointed, invocations>>

\* generateSpeech resolves (to audio, or to undefined after a caught failure):
\* the card is pushed, the draft saved, and the loop goes on.
SpeechResolves(audio) ==
  LET card == newCard(nextId, cardData, audio)
      cards == Append(generatedCards, card)
      map == MapSet(existingWordData, ToLowerCase(uniqueInputWords[i]), StripId(card))
  IN
  /\ pc = "awaitSpeech"
  /\ checkpointed' = Len(cards)
  /\ cardData' = NoCardData
  /\ Continue(i + 1, uniqueInputWords, cards, alreadyGeneratedWords, map,
              draftToSave(uniqueInputWords, cards), dataCalls, nextId + 1)
  /\ UNCHANGED <<storeVars, appVars, caller, uniqueInputWords, alreadyGeneratedWords,
                 targetLanguage, nativeLanguage, error, speechCalls, draftAtStart,
                 knownAtStart, invocations>>

\* ------------------------------------------- the generator called directly
InputLists == UNION {[1..n -> RawStrings] : n \in 0..MaxInput}

\* localStorage as an earlier run of the application may have left it
StoredWordA == WordCard(11, "a", "en", "zh", "d1", "pcm")
StoredWordUpperA == WordCard(11, "A", "en", "zh", "d1", Undefined)
EmbeddedWordA == WordCard(13, "a", "en", "zh", "d2", Undefined)
StoreConfigs ==
  { [decks |-> <<>>, words |-> <<>>],
    [decks |-> <<>>, words |-> <<StoredWordA>>],
    [decks |-> <<>>, words |-> <<StoredWordUpperA>>],
    [decks |-> <<CardDeck(12, <<EmbeddedWordA>>, "en", "zh")>>, words |-> <<StoredWordA>>],
    [decks |-> <<CardDeck(12, <<IdString(11)>>, "en", "zh")>>, words |-> <<StoredWordA>>] }

GenIdle ==
  /\ pc = "idle"
  /\ caller = "none"
  /\ uniqueInputWords = <<>>
  /\ generatedCards = <<>>
  /\ alreadyGeneratedWords = {}
  /\ existingWordData = EmptyMap
  /\ i = 0
  /\ cardData = NoCardData
  /\ targetLanguage = "en"
  /\ nativeLanguage = "zh"
  /\ error = "none"
  /\ dataCalls = NoCalls
  /\ speechCalls = NoCalls
  /\ draftAtStart = <<>>
  /\ knownAtStart = {}
  /\ checkpointed = 0

\* the invocation's locals are gone once its caller has its result
ForgetInvocation ==
  /\ pc' = "idle"
  /\ caller' = "none"
  /\ uniqueInputWords' = <<>>
  /\ generatedCards' = <<>>
  /\ alreadyGeneratedWords' = {}
  /\ existingWordData' = EmptyMap
  /\ i' = 0
  /\ cardData' = NoCardData
  /\ targetLanguage' = "en"
  /\ nativeLanguage' = "zh"
  /\ error' = "none"
  /\ dataCalls' = NoCalls
  /\ speechCalls' = NoCalls
  /\ draftAtStart' = <<>>
  /\ knownAtStart' = {}
  /\ checkpointed' = 0

\* ids of the decks an import payload can bring
ImportedDeckIds == {21, 22}
DeckIds == (1..MaxId) \cup ImportedDeckIds

\* the application just loaded, HomePage not yet mounted
\* no StudyPage is mounted
StudyIdle ==
  /\ sessionQueue = <<>>
  /\ learningQueue = <<>>
  /\ currentIndex = 0
  /\ isFlipped = FALSE
  /\ sessionComplete = FALSE
  /\ isTransitioning = FALSE
  /\ advanceTimer = <<>>

AppIdle ==
  /\ view = "none"
  /\ hDecks = <<>>
  /\ hStories = <<>>
  /\ hWords = <<>>
  /\ initialDeck = <<>>
  /\ deck = <<>>
  /\ shownIds = {}
  /\ debounce = <<>>
  /\ lsDeckDraft = [id \in DeckIds |-> <<>>]
  /\ storyDeck = <<>>
  /\ storyPc = "idle"
  /\ storyReq = <<>>
  /\ editingWords = <<>>
  /\ wordsEdit = <<>>
  /\ wordsDebounce = <<>>
  /\ lsWordsDraft = <<>>
  /\ callerAlive = FALSE
  /\ exportFile = <<>>
  /\ storeAtExport = <<>>
  /\ abandoned = <<>>
  /\ StudyIdle

Init ==
  /\ \E cfg \in StoreConfigs : lsDecks = cfg.decks /\ lsWords = cfg.words
  /\ lsStories = <<>>
  /\ lsDraft = <<>>
  /\ nextId = 1
  /\ invocations = 0
  /\ GenIdle
  /\ AppIdle

\* a caller invokes processAndGenerateWords(words, tl, nl, onProgress)
Invoke ==
  /\ invocations < MaxInvocations
  /\ invocations' = invocations + 1
  /\ \E words \in InputLists, langs \in LangPairs :
       Begin(words, langs[1], langs[2], "direct", 0)
  /\ UNCHANGED <<storeVars, appVars>>

\* the caller takes the result (or the error); the next invocation may start
Settle ==
  /\ pc \in {"returned", "failed"}
  /\ caller = "direct"
  /\ ForgetInvocation
  /\ UNCHANGED <<storeVars, appVars, lsDraft, nextId, invocations>>

Next ==
  \/ Invoke
  \/ TimerResolves
  \/ DataResolves
  \/ DataThrows
  \/ \E audio \in {"pcm", Undefined} : SpeechResolves(audio)
  \/ Settle

Spec == Init /\ [][Next]_vars

\* ------------------------------------------------------------ the application
MaxAppInput == 2

genLocals == <<pc, caller, uniqueInputWords, generatedCards, alreadyGeneratedWords,
               existingWordData, i, cardData, targetLanguage, nativeLanguage, error,
               dataCalls, speechCalls, draftAtStart, knownAtStart, checkpointed>>
homeVars == <<hDecks, hStories, hWords>>
editVars == <<initialDeck, deck, shownIds, debounce>>
storyVars == <<storyDeck, storyPc, storyReq>>
fileVars == <<exportFile, storeAtExport>>
studyVars == <<sessionQueue, learningQueue, currentIndex, isFlipped, sessionComplete,
               isTransitioning, advanceTimer>>
wordsPage == <<editingWords, wordsEdit, wordsDebounce>>
draftSlots == <<lsDeckDraft, lsWordsDraft>>

\* what the user can type into a word box, already split at commas and newlines
AppWords == {"a", "b"}
AppInputs == UNION {[1..n -> AppWords] : n \in 0..MaxAppInput}

\* prompt.split(/[\n,]+/).map(w => w.trim().toLowerCase()).filter(Boolean)
splitWords(text) ==
  SelectSeq([k \in DOMAIN text |-> ToLowerCase(Trim(text[k]))], IsNonEmpty)

idsOf(cards) == {cards[k].id : k \in DOMAIN cards}

\* existing.filter(w => !newMap.has(w.id)) followed by the new cards
mergeWords(existing, cards) ==
  SelectSeq(existing, LAMBDA w : w.id \notin idsOf(cards)) \o cards

\* cards.map(c => c.id): the ids as strings of a membership list
idStrings(cards) == [k \in DOMAIN cards |-> IdString(cards[k].id)]

RECURSIVE DedupeEntries(_)
\* [...new Set(entries)]: strings are equal by value, objects only by reference
DedupeEntries(list) ==
  IF list = <<>> THEN <<>>
  ELSE LET init == DedupeEntries(SubSeq(list, 1, Len(list) - 1))
           last == list[Len(list)]
       IN IF last.kind = "str" /\ last \in Range(init) THEN init ELSE Append(init, last)

\* a pending continuation of an awaited call runs before the next user event
UiFree == pc \notin {"returned", "failed"}

\* identifiers the invocation in flight may still draw
PendingIds ==
  IF pc \in {"idle", "failed"} THEN 0
  ELSE Cardinality({k \in DOMAIN uniqueInputWords :
                      k >= i /\ uniqueInputWords[k] \notin alreadyGeneratedWords})
       + (IF caller = "createDeck" THEN 1 ELSE 0)

\* HomePage mounts: reloadData() reads the three collections
MountHome(decks, words, stories) ==
  /\ view' = "home"
  /\ hDecks' = readDecks(decks)
  /\ hStories' = readStories(stories)
  /\ hWords' = readWords(words)

UnmountHome ==
  /\ hDecks' = <<>>
  /\ hStories' = <<>>
  /\ hWords' = <<>>

\* variant: a stored draft restored without asking
MountEditDeck_unasked(d, words, accept) ==
  LET draft == lsDeckDraft[d.id]
      restored == draft # <<>> /\ draft[1].id = d.id
      shown == IF restored THEN draft[1] ELSE d
  IN
  /\ view' = "editDeck"
  /\ initialDeck' = <<d>>
  /\ deck' = <<shown>>
  /\ shownIds' = idsOf(readWords(words))
  /\ debounce' = <<shown>>

\* EditDeckPage mounts for deck d: allWordsMap, the restore effect (accept is
\* the answer to the confirm dialog) and the first run of the auto-save effect
MountEditDeck(d, words, accept) ==
  LET draft == lsDeckDraft[d.id]
      restored == draft # <<>> /\ draft[1].id = d.id /\ accept
      shown == IF restored THEN draft[1] ELSE d
  IN
  /\ view' = "editDeck"
  /\ initialDeck' = <<d>>
  /\ deck' = <<shown>>
  /\ shownIds' = idsOf(readWords(words))
  /\ debounce' = <<shown>>

\* EditDeckPage unmounts: the effect's cleanup clears the timer
UnmountEditDeck ==
  /\ initialDeck' = <<>>
  /\ deck' = <<>>
  /\ shownIds' = {}
  /\ debounce' = <<>>

RECURSIVE InsertId(_, _)
InsertId(sorted, id) ==
  IF sorted = <<>> THEN <<id>>
  ELSE IF id < Head(sorted) THEN <<id>> \o sorted
  ELSE <<Head(sorted)>> \o InsertId(Tail(sorted), id)

RECURSIVE SortIds(_)
\* ids.sort(): the order itself does not matter, both lists are sorted alike
SortIds(ids) == IF ids = <<>> THEN <<>> ELSE InsertId(SortIds(Tail(ids)), Head(ids))

\* words.map(w => w.id)
idList(cards) == [k \in DOMAIN cards |-> cards[k].id]

\* currentInitialIds.join(',') === draftInitialIds.join(','), both sorted
sameInitialIds(cards, draft) == SortIds(idList(cards)) = SortIds(draft.initialIds)

\* the draft the auto-save effect of EditWordsPage writes
wordsDraft(cards, shown) == [initialIds |-> idList(cards), words |-> shown]

\* EditWordsPage mounts for the cards: the restore effect (accept is the
\* answer to the confirm dialog) and the first run of the auto-save effect
MountEditWords(cards, accept) ==
  LET restored == /\ lsWordsDraft # <<>>
                  /\ sameInitialIds(cards, lsWordsDraft[1])
                  /\ accept
      shown == IF restored THEN lsWordsDraft[1].words ELSE cards
  IN
  /\ view' = "editWords"
  /\ editingWords' = <<cards>>
  /\ wordsEdit' = <<shown>>
  /\ wordsDebounce' = <<wordsDraft(cards, shown)>>

\* variant: the page unmounts and its timer stays armed
UnmountEditWords_armed ==
  /\ editingWords' = <<>>
  /\ wordsEdit' = <<>>
  /\ UNCHANGED wordsDebounce

\* EditWordsPage unmounts: the effect's cleanup clears the timer
UnmountEditWords ==
  /\ editingWords' = <<>>
  /\ wordsEdit' = <<>>
  /\ wordsDebounce' = <<>>

\* StudyPage unmounts; a pending transition timer finds no component
UnmountStudy ==
  /\ sessionQueue' = <<>>
  /\ learningQueue' = <<>>
  /\ currentIndex' = 0
  /\ isFlipped' = FALSE
  /\ sessionComplete' = FALSE
  /\ isTransitioning' = FALSE
  /\ advanceTimer' = <<>>

\* navigateTo('home') from a page other than HomePage
GoHome(decks, words, stories) ==
  /\ MountHome(decks, words, stories)
  /\ UnmountEditDeck
  /\ UnmountEditWords
  /\ callerAlive' = FALSE

\* HomePage: the create button
OnCreate ==
  /\ view = "home"
  /\ UiFree
  /\ view' = "create"
  /\ UnmountHome
  /\ UNCHANGED <<storeVars, genLocals, lsDraft, nextId, invocations, editVars,
                 draftSlots, storyVars, wordsPage, callerAlive, fileVars, abandoned, studyVars>>

\* CreationPage: the back button
CreationBack ==
  /\ view = "create"
  /\ UiFree
  /\ GoHome(lsDecks, lsWords, lsStories)
  /\ UNCHANGED <<storeVars, genLocals, lsDraft, nextId, invocations, draftSlots,
                 storyVars, fileVars, abandoned, studyVars>>

\* CreationPage.handleGenerate up to its await (lines 74-92)
HandleGenerate(text, mode, titled) ==
  /\ view = "create"
  /\ pc = "idle"
  /\ IF splitWords(text) = <<>> \/ (mode = "deck" /\ ~titled)
     THEN UNCHANGED <<genLocals, lsDraft, nextId, callerAlive>>
     ELSE /\ Begin(splitWords(text), "en", "zh",
                   IF mode = "deck" THEN "createDeck" ELSE "createWords",
                   IF mode = "deck" THEN 1 ELSE 0)
          /\ callerAlive' = TRUE
  /\ UNCHANGED <<storeVars, invocations, view, homeVars, editVars, draftSlots,
                 storyVars, wordsPage, fileVars, abandoned, studyVars>>

\* CreationPage.handleGenerate after the await (lines 94-112)
GenerateDone ==
  LET words == mergeWords(getWords, generatedCards)
      newDeck == CardDeck(nextId, idStrings(generatedCards), "en", "zh")
  IN
  /\ pc = "returned"
  /\ caller \in {"createDeck", "createWords"}
  /\ lsWords' = words
  /\ IF caller = "createDeck"
     THEN /\ nextId' = nextId + 1
          /\ \E accept \in BOOLEAN : MountEditDeck(newDeck, words, accept)
          /\ UnmountEditWords
     ELSE /\ nextId' = nextId
          /\ \E accept \in BOOLEAN : MountEditWords(generatedCards, accept)
          /\ UnmountEditDeck
  /\ UnmountHome
  /\ callerAlive' = FALSE
  /\ ForgetInvocation
  /\ UNCHANGED <<lsDecks, lsStories, lsDraft, invocations, draftSlots, storyVars,
                 fileVars, abandoned, studyVars>>

\* CreationPage.handleGenerate: the catch block (lines 114-116)
GenerateFailed ==
  /\ pc = "failed"
  /\ caller \in {"createDeck", "createWords"}
  /\ ForgetInvocation
  /\ callerAlive' = FALSE
  /\ UNCHANGED <<storeVars, lsDraft, nextId, invocations, view, homeVars, editVars,
                 draftSlots, storyVars, wordsPage, fileVars, abandoned, studyVars>>

\* EditWordsPage: save, which is cleanupAndAction and App.handleSaveWords
SaveWords ==
  /\ view = "editWords"
  /\ UiFree
  /\ lsWordsDraft' = <<>>
  /\ lsWords' = mergeWords(getWords, wordsEdit[1])
  /\ GoHome(lsDecks, lsWords', lsStories)
  /\ UNCHANGED <<lsDecks, lsStories, genLocals, lsDraft, nextId, invocations,
                 lsDeckDraft, storyVars, fileVars, abandoned, studyVars>>

\* EditWordsPage: cancel, which is cleanupAndAction and navigateTo('home')
CancelWords ==
  /\ view = "editWords"
  /\ UiFree
  /\ lsWordsDraft' = <<>>
  /\ GoHome(lsDecks, lsWords, lsStories)
  /\ UNCHANGED <<storeVars, genLocals, lsDraft, nextId, invocations, lsDeckDraft,
                 storyVars, fileVars, abandoned, studyVars>>

\* EditWordsPage: the 1000 ms auto-save timer fires
WordsDebounceFires ==
  /\ wordsDebounce # <<>>
  /\ lsWordsDraft' = wordsDebounce
  /\ wordsDebounce' = <<>>
  /\ UNCHANGED <<storeVars, genLocals, lsDraft, nextId, invocations, view, homeVars,
                 editVars, lsDeckDraft, storyVars, editingWords, wordsEdit,
                 callerAlive, fileVars, abandoned, studyVars>>

\* the card as the user changed it in WordCardComponent
editedCard(card) == [card EXCEPT !.definitions = "edited"]

\* variant: the update leaves the pending write as it was armed
HandleWordUpdate_stale(id) ==
  LET newCards == [k \in DOMAIN wordsEdit[1] |->
                     IF wordsEdit[1][k].id = id THEN editedCard(wordsEdit[1][k])
                     ELSE wordsEdit[1][k]]
  IN
  /\ view = "editWords"
  /\ UiFree
  /\ id \in idsOf(wordsEdit[1])
  /\ newCards # wordsEdit[1]
  /\ wordsEdit' = <<newCards>>
  /\ UNCHANGED wordsDebounce
  /\ UNCHANGED <<storeVars, genLocals, lsDraft, nextId, invocations, view, homeVars,
                 editVars, draftSlots, storyVars, editingWords, callerAlive, fileVars, abandoned, studyVars>>

\* EditWordsPage.handleCardUpdate for the card with the id
HandleWordUpdate(id) ==
  LET newCards == [k \in DOMAIN wordsEdit[1] |->
                     IF wordsEdit[1][k].id = id THEN editedCard(wordsEdit[1][k])
                     ELSE wordsEdit[1][k]]
  IN
  /\ view = "editWords"
  /\ UiFree
  /\ id \in idsOf(wordsEdit[1])
  /\ newCards # wordsEdit[1]
  /\ wordsEdit' = <<newCards>>
  /\ wordsDebounce' = <<wordsDraft(editingWords[1], newCards)>>
  /\ UNCHANGED <<storeVars, genLocals, lsDraft, nextId, invocations, view, homeVars,
                 editVars, draftSlots, storyVars, editingWords, callerAlive, fileVars, abandoned, studyVars>>

\* EditDeckPage: the 1000 ms auto-save timer fires
DebounceFires ==
  /\ debounce # <<>>
  /\ lsDeckDraft' = [lsDeckDraft EXCEPT ![debounce[1].id] = debounce]
  /\ UNCHANGED lsWordsDraft
  /\ debounce' = <<>>
  /\ UNCHANGED <<storeVars, genLocals, lsDraft, nextId, invocations, view, homeVars,
                 initialDeck, deck, shownIds, storyVars, wordsPage, callerAlive,
                 fileVars, abandoned, studyVars>>

\* the membership entries EditDeckPage displays as cards
displayedIds == {deck[1].cards[k].chars : k \in
                   {j \in DOMAIN deck[1].cards :
                      deck[1].cards[j].kind = "str" /\ deck[1].cards[j].chars \in shownIds}}

\* EditDeckPage.handleRemoveWordFromDeck
HandleRemoveWordFromDeck(wordId) ==
  LET newDeck == [deck[1] EXCEPT !.cards = SelectSeq(@, LAMBDA e : e # IdString(wordId))]
  IN
  /\ view = "editDeck"
  /\ UiFree
  /\ wordId \in displayedIds
  /\ deck' = <<newDeck>>
  /\ debounce' = <<newDeck>>
  /\ UNCHANGED <<storeVars, genLocals, lsDraft, nextId, invocations, view, homeVars,
                 initialDeck, shownIds, draftSlots, storyVars, wordsPage,
                 callerAlive, fileVars, abandoned, studyVars>>

\* EditDeckPage.handleAddWords up to its await (lines 102-118)
HandleAddWords(text) ==
  /\ view = "editDeck"
  /\ pc = "idle"
  /\ IF splitWords(text) = <<>>
     THEN UNCHANGED <<genLocals, lsDraft, nextId, callerAlive>>
     ELSE /\ Begin(splitWords(text), deck[1].targetLanguage, deck[1].nativeLanguage,
                   "addWords", 0)
          /\ callerAlive' = TRUE
  /\ UNCHANGED <<storeVars, invocations, view, homeVars, editVars, draftSlots,
                 storyVars, wordsPage, fileVars, abandoned, studyVars>>

\* EditDeckPage.handleAddWords after the await (lines 120-133)
AddWordsDone ==
  LET newDeck == [deck[1] EXCEPT
                    !.cards = DedupeEntries(@ \o idStrings(generatedCards))]
  IN
  /\ pc = "returned"
  /\ caller = "addWords"
  /\ lsWords' = mergeWords(getWords, generatedCards)
  /\ IF callerAlive
     THEN /\ deck' = <<newDeck>>
          /\ debounce' = <<newDeck>>
     ELSE UNCHANGED <<deck, debounce>>
  /\ callerAlive' = FALSE
  /\ ForgetInvocation
  /\ UNCHANGED <<lsDecks, lsStories, lsDraft, nextId, invocations, view, homeVars,
                 initialDeck, shownIds, draftSlots, storyVars, wordsPage, fileVars, abandoned, studyVars>>

\* variant: the catch block keeps the cards completed before the failure
AddWordsFailed_partial ==
  /\ pc = "failed"
  /\ caller = "addWords"
  /\ lsWords' = mergeWords(getWords, generatedCards)
  /\ IF callerAlive
     THEN /\ deck' = <<[deck[1] EXCEPT
                         !.cards = DedupeEntries(@ \o idStrings(generatedCards))]>>
          /\ debounce' = deck'
     ELSE UNCHANGED <<deck, debounce>>
  /\ callerAlive' = FALSE
  /\ ForgetInvocation
  /\ UNCHANGED <<lsDecks, lsStories, lsDraft, nextId, invocations, view, homeVars,
                 initialDeck, shownIds, draftSlots, storyVars, wordsPage, fileVars, abandoned, studyVars>>

\* EditDeckPage.handleAddWords: the catch block (lines 135-136)
AddWordsFailed ==
  /\ pc = "failed"
  /\ caller = "addWords"
  /\ ForgetInvocation
  /\ callerAlive' = FALSE
  /\ UNCHANGED <<storeVars, lsDraft, nextId, invocations, view, homeVars, editVars,
                 draftSlots, storyVars, wordsPage, fileVars, abandoned, studyVars>>

\* decks[existingIndex] = deckToSave, or decks.unshift(deckToSave)
putDeck(decks, deckToSave) ==
  IF \E k \in DOMAIN decks : decks[k].id = deckToSave.id
  THEN LET existingIndex == CHOOSE k \in DOMAIN decks :
                              /\ decks[k].id = deckToSave.id
                              /\ \A j \in 1..(k - 1) : decks[j].id # deckToSave.id
       IN [decks EXCEPT ![existingIndex] = deckToSave]
  ELSE <<deckToSave>> \o decks

\* EditDeckPage.handleSaveWrapper and App.handleSaveDeck
SaveDeck ==
  /\ view = "editDeck"
  /\ UiFree
  /\ lsDeckDraft' = [lsDeckDraft EXCEPT ![initialDeck[1].id] = <<>>]
  /\ UNCHANGED lsWordsDraft
  /\ lsDecks' = putDeck(getDecks, deck[1])
  /\ GoHome(lsDecks', lsWords, lsStories)
  /\ UNCHANGED <<lsWords, lsStories, genLocals, lsDraft, nextId, invocations,
                 storyVars, fileVars, abandoned, studyVars>>

\* EditDeckPage.handleCancelWrapper
CancelDeck ==
  /\ view = "editDeck"
  /\ UiFree
  /\ lsDeckDraft' = [lsDeckDraft EXCEPT ![initialDeck[1].id] = <<>>]
  /\ UNCHANGED lsWordsDraft
  /\ GoHome(lsDecks, lsWords, lsStories)
  /\ UNCHANGED <<storeVars, genLocals, lsDraft, nextId, invocations, storyVars,
                 fileVars, abandoned, studyVars>>

\* HomePage: the edit button of a deck, which is App.handleEditDeck(deck, false)
HomeEditDeck(k, accept) ==
  /\ view = "home"
  /\ UiFree
  /\ k \in DOMAIN hDecks
  /\ MountEditDeck(hDecks[k], lsWords, accept)
  /\ UnmountHome
  /\ UNCHANGED <<storeVars, genLocals, lsDraft, nextId, invocations, draftSlots,
                 storyVars, wordsPage, callerAlive, fileVars, abandoned, studyVars>>

\* HomePage: the edit button of a word, which is App.handleEditWord(word)
HomeEditWord(k, accept) ==
  /\ view = "home"
  /\ UiFree
  /\ k \in DOMAIN hWords
  /\ MountEditWords(<<hWords[k]>>, accept)
  /\ UnmountHome
  /\ UNCHANGED <<storeVars, genLocals, lsDraft, nextId, invocations, editVars,
                 draftSlots, storyVars, callerAlive, fileVars, abandoned, studyVars>>

\* HomePage.handleDeleteDeck; confirmed is the answer to the confirm dialog
HandleDeleteDeck(deckId, confirmed) ==
  LET updatedDecks == SelectSeq(hDecks, LAMBDA d : d.id # deckId)
      updatedStories == SelectSeq(hStories, LAMBDA s : s.deckId # deckId)
  IN
  /\ view = "home"
  /\ UiFree
  /\ \E k \in DOMAIN hDecks : hDecks[k].id = deckId
  /\ IF confirmed
     THEN /\ lsDecks' = updatedDecks
          /\ hDecks' = updatedDecks
          /\ lsStories' = updatedStories
          /\ hStories' = updatedStories
     ELSE UNCHANGED <<lsDecks, hDecks, lsStories, hStories>>
  /\ UNCHANGED <<lsWords, hWords, genLocals, lsDraft, nextId, invocations, view,
                 editVars, draftSlots, storyVars, wordsPage, callerAlive, fileVars, abandoned, studyVars>>

\* deck.cards.filter(id => id !== wordId) over the decks
withoutWord(decks, wordId) ==
  [k \in DOMAIN decks |->
     [decks[k] EXCEPT !.cards = SelectSeq(@, LAMBDA e : e # IdString(wordId))]]

\* HomePage.handleDeleteWord
HandleDeleteWord(wordId, confirmed) ==
  LET updatedWords == SelectSeq(hWords, LAMBDA w : w.id # wordId)
      updatedDecks == withoutWord(hDecks, wordId)
  IN
  /\ view = "home"
  /\ UiFree
  /\ \E k \in DOMAIN hWords : hWords[k].id = wordId
  /\ IF confirmed
     THEN /\ lsWords' = updatedWords
          /\ hWords' = updatedWords
          /\ lsDecks' = updatedDecks
          /\ hDecks' = updatedDecks
     ELSE UNCHANGED <<lsWords, hWords, lsDecks, hDecks>>
  /\ UNCHANGED <<lsStories, hStories, genLocals, lsDraft, nextId, invocations, view,
                 editVars, draftSlots, storyVars, wordsPage, callerAlive, fileVars, abandoned, studyVars>>

\* HomePage.handleDeleteStory
HandleDeleteStory(storyId, confirmed) ==
  LET updatedStories == SelectSeq(hStories, LAMBDA s : s.id # storyId)
  IN
  /\ view = "home"
  /\ UiFree
  /\ \E k \in DOMAIN hStories : hStories[k].id = storyId
  /\ IF confirmed
     THEN /\ lsStories' = updatedStories
          /\ hStories' = updatedStories
     ELSE UNCHANGED <<lsStories, hStories>>
  /\ UNCHANGED <<lsDecks, lsWords, hDecks, hWords, genLocals, lsDraft, nextId,
                 invocations, view, editVars, draftSlots, storyVars, wordsPage,
                 callerAlive, fileVars, abandoned, studyVars>>

\* the object handleExport serialises
exportData ==
  [isObject |-> TRUE, decks |-> getDecks, words |-> getWords, stories |-> getStories]

\* HomePage.handleExport
HandleExport ==
  /\ view = "home"
  /\ UiFree
  /\ exportFile' = <<exportData>>
  /\ storeAtExport' = <<[decks |-> lsDecks, words |-> lsWords, stories |-> lsStories]>>
  /\ UNCHANGED <<storeVars, genLocals, lsDraft, nextId, invocations, view, homeVars,
                 editVars, draftSlots, storyVars, wordsPage, callerAlive, abandoned,
                 studyVars>>

\* importedDecks[0].cards[0] is an object
looksLegacy(importedDecks) ==
  /\ Len(importedDecks) > 0
  /\ Len(importedDecks[1].cards) > 0
  /\ importedDecks[1].cards[1].kind = "obj"

\* new Map(importedWords.map(w => [w.id, w])).values(): a key keeps the place
\* of its first entry and the value of its last
mapValues(words) ==
  LET keys == Dedupe([k \in DOMAIN words |-> words[k].id])
  IN [n \in DOMAIN keys |->
        words[CHOOSE k \in DOMAIN words :
                /\ words[k].id = keys[n]
                /\ \A j \in (k + 1)..Len(words) : words[j].id # keys[n]]]

\* cards.forEach(card => if (card && card.id) cardIds.push(card.id))
embeddedIds(cards) ==
  idStrings(SelectSeq(cards, LAMBDA c : c.id # NoId))

RECURSIVE addEmbedded(_, _)
\* if (!allWordsMap.has(card.id)) allWordsMap.set(card.id, card), over the cards
addEmbedded(words, cards) ==
  IF cards = <<>> THEN words
  ELSE LET c == Head(cards)
       IN IF c.id # NoId /\ c.id \notin idsOf(words)
          THEN addEmbedded(Append(words, c), Tail(cards))
          ELSE addEmbedded(words, Tail(cards))

\* the decks handleFileImport saves
decksToImport(data) ==
  IF looksLegacy(data.decks)
  THEN [k \in DOMAIN data.decks |->
          [data.decks[k] EXCEPT !.cards = embeddedIds(@)]]
  ELSE data.decks

\* the words handleFileImport saves
wordsToImport(data) ==
  IF looksLegacy(data.decks)
  THEN addEmbedded(mapValues(data.words), FlattenCards(data.decks))
  ELSE data.words

\* backup files in the current format, in the legacy format, and a file whose
\* JSON value is an array
ImportedWord(id, word) == WordCard(id, word, "en", "zh", "d", Undefined)
ImportedStory(id, deckId) ==
  [id |-> id, deckId |-> deckId, targetLanguage |-> "en", nativeLanguage |-> "zh"]
CurrentFormatFile ==
  [isObject |-> TRUE,
   decks |-> <<CardDeck(21, <<IdString(31), IdString(32), IdString(33)>>, "en", "zh"),
               CardDeck(22, <<IdString(31)>>, "en", "zh")>>,
   words |-> <<ImportedWord(31, "a"), ImportedWord(32, "b"), ImportedWord(33, "c")>>,
   stories |-> <<ImportedStory(41, 22)>>]
LegacyFormatFile ==
  [isObject |-> TRUE,
   decks |-> <<CardDeck(21, <<ImportedWord(31, "a"), ImportedWord(32, "b"),
                              ImportedWord(33, "c")>>, "en", "zh")>>,
   words |-> <<>>,
   stories |-> <<>>]
ArrayFile == [isObject |-> FALSE, decks |-> <<>>, words |-> <<>>, stories |-> <<>>]
ImportFiles == {CurrentFormatFile, LegacyFormatFile, ArrayFile}

\* HomePage.handleFileImport with the parsed content of the chosen file
HandleFileImport(data, confirmed) ==
  /\ view = "home"
  /\ UiFree
  /\ IF data.isObject /\ confirmed
     THEN /\ lsDecks' = decksToImport(data)
          /\ lsWords' = wordsToImport(data)
          /\ lsStories' = data.stories
          /\ hDecks' = readDecks(lsDecks')
          /\ hStories' = readStories(lsStories')
          /\ hWords' = readWords(lsWords')
     ELSE UNCHANGED <<storeVars, homeVars>>
  /\ UNCHANGED <<genLocals, lsDraft, nextId, invocations, view, editVars,
                 draftSlots, storyVars, wordsPage, callerAlive, fileVars, abandoned, studyVars>>

\* HomePage: the story button of a deck (disabled under three cards)
HomeGenerateStory(k) ==
  /\ view = "home"
  /\ UiFree
  /\ k \in DOMAIN hDecks
  /\ Len(hDecks[k].cards) >= 3
  /\ storyDeck' = <<hDecks[k]>>
  /\ view' = "generateStory"
  /\ UnmountHome
  /\ UNCHANGED <<storeVars, genLocals, lsDraft, nextId, invocations, editVars,
                 draftSlots, storyPc, storyReq, wordsPage, callerAlive, fileVars, abandoned, studyVars>>

\* GenerateStoryPage.handleGenerate up to its await (lines 38-56)
StoryHandleGenerate ==
  /\ view = "generateStory"
  /\ UiFree
  /\ storyPc = "idle"
  /\ storyPc' = "inflight"
  /\ storyReq' = storyDeck
  /\ UNCHANGED <<storeVars, genLocals, lsDraft, nextId, invocations, view, homeVars,
                 editVars, draftSlots, storyDeck, wordsPage, callerAlive, fileVars, abandoned, studyVars>>

\* GenerateStoryPage: the back button, which stays enabled during the call
StoryCancel ==
  /\ view = "generateStory"
  /\ UiFree
  /\ storyDeck' = <<>>
  /\ GoHome(lsDecks, lsWords, lsStories)
  /\ UNCHANGED <<storeVars, genLocals, lsDraft, nextId, invocations, draftSlots,
                 storyPc, storyReq, fileVars, abandoned, studyVars>>

\* generateStoryFromWords resolves: the story is built and App.handleSaveStory
\* runs (lines 58-69 of the page, 108-114 of App)
StoryResolves ==
  LET newStory == [id |-> nextId, deckId |-> storyReq[1].id,
                   targetLanguage |-> storyReq[1].targetLanguage,
                   nativeLanguage |-> storyReq[1].nativeLanguage]
  IN
  /\ storyPc = "inflight"
  /\ UiFree
  /\ nextId + PendingIds <= MaxId
  /\ nextId' = nextId + 1
  /\ lsStories' = <<newStory>> \o getStories
  /\ storyDeck' = <<>>
  /\ storyPc' = "idle"
  /\ storyReq' = <<>>
  /\ IF view = "home"
     THEN UNCHANGED <<view, homeVars, editVars, wordsPage, callerAlive>>
     ELSE GoHome(lsDecks, lsWords, lsStories')
  /\ UNCHANGED <<lsDecks, lsWords, genLocals, lsDraft, invocations, draftSlots,
                 fileVars, abandoned, studyVars>>

\* generateStoryFromWords rejects: the catch block (lines 71-72)
StoryThrows ==
  /\ storyPc = "inflight"
  /\ UiFree
  /\ storyPc' = "idle"
  /\ storyReq' = <<>>
  /\ UNCHANGED <<storeVars, genLocals, lsDraft, nextId, invocations, view, homeVars,
                 editVars, draftSlots, storyDeck, wordsPage, callerAlive, fileVars, abandoned, studyVars>>

\* the browser reloads the page: memory is lost, localStorage stays
Reload ==
  /\ view # "home" \/ pc # "idle" \/ storyPc # "idle"
  /\ ForgetInvocation
  /\ storyDeck' = <<>>
  /\ storyPc' = "idle"
  /\ storyReq' = <<>>
  /\ GoHome(lsDecks, lsWords, lsStories)
  /\ abandoned' = <<>>
  /\ UnmountStudy
  /\ UNCHANGED <<storeVars, lsDraft, nextId, invocations, draftSlots, fileVars>>

\* the application opened on an empty localStorage
InitApp ==
  /\ lsDecks = <<>>
  /\ lsWords = <<>>
  /\ lsStories = <<>>
  /\ lsDraft = <<>>
  /\ nextId = 1
  /\ invocations = 0
  /\ GenIdle
  /\ view = "home"
  /\ hDecks = <<>>
  /\ hStories = <<>>
  /\ hWords = <<>>
  /\ initialDeck = <<>>
  /\ deck = <<>>
  /\ shownIds = {}
  /\ debounce = <<>>
  /\ lsDeckDraft = [id \in DeckIds |-> <<>>]
  /\ storyDeck = <<>>
  /\ storyPc = "idle"
  /\ storyReq = <<>>
  /\ editingWords = <<>>
  /\ wordsEdit = <<>>
  /\ wordsDebounce = <<>>
  /\ lsWordsDraft = <<>>
  /\ callerAlive = FALSE
  /\ exportFile = <<>>
  /\ storeAtExport = <<>>
  /\ abandoned = <<>>
  /\ StudyIdle

\* creating, editing and deleting decks and words
NextApp ==
  \/ OnCreate
  \/ CreationBack
  \/ \E text \in AppInputs, mode \in {"deck", "words"}, titled \in BOOLEAN :
       HandleGenerate(text, mode, titled)
  \/ TimerResolves
  \/ DataResolves
  \/ DataThrows
  \/ \E audio \in {"pcm", Undefined} : SpeechResolves(audio)
  \/ GenerateDone
  \/ GenerateFailed
  \/ SaveWords
  \/ CancelWords
  \/ DebounceFires
  \/ \E wordId \in shownIds : HandleRemoveWordFromDeck(wordId)
  \/ \E text \in AppInputs : HandleAddWords(text)
  \/ AddWordsDone
  \/ AddWordsFailed
  \/ SaveDeck
  \/ CancelDeck
  \/ \E k \in DOMAIN hDecks, accept \in BOOLEAN : HomeEditDeck(k, accept)
  \/ \E deckId \in idsOf(hDecks), confirmed \in BOOLEAN :
       HandleDeleteDeck(deckId, confirmed)
  \/ \E wordId \in idsOf(hWords), confirmed \in BOOLEAN :
       HandleDeleteWord(wordId, confirmed)
  \/ Reload

SpecApp == InitApp /\ [][NextApp]_vars

\* what the user types in the sessions that exercise the draft slots
DraftInputs == {<<"a">>}

\* editing decks and words with the auto-save timers firing
NextDrafts ==
  \/ OnCreate
  \/ CreationBack
  \/ \E text \in DraftInputs, mode \in {"deck", "words"} : HandleGenerate(text, mode, TRUE)
  \/ TimerResolves
  \/ DataResolves
  \/ SpeechResolves("pcm")
  \/ GenerateDone
  \/ SaveWords
  \/ CancelWords
  \/ WordsDebounceFires
  \/ \E id \in 1..MaxId : HandleWordUpdate(id)
  \/ \E k \in DOMAIN hWords, accept \in BOOLEAN : HomeEditWord(k, accept)
  \/ DebounceFires
  \/ \E wordId \in shownIds : HandleRemoveWordFromDeck(wordId)
  \/ \E text \in DraftInputs : HandleAddWords(text)
  \/ AddWordsDone
  \/ AddWordsFailed
  \/ SaveDeck
  \/ CancelDeck
  \/ \E k \in DOMAIN hDecks, accept \in BOOLEAN : HomeEditDeck(k, accept)
  \/ Reload

SpecDrafts == InitApp /\ [][NextDrafts]_vars

\* importing a library, generating stories for its decks, deleting decks and stories
NextStory ==
  \/ \E data \in ImportFiles, confirmed \in BOOLEAN : HandleFileImport(data, confirmed)
  \/ \E deckId \in idsOf(hDecks), confirmed \in BOOLEAN :
       HandleDeleteDeck(deckId, confirmed)
  \/ \E wordId \in idsOf(hWords), confirmed \in BOOLEAN :
       HandleDeleteWord(wordId, confirmed)
  \/ \E storyId \in idsOf(hStories), confirmed \in BOOLEAN :
       HandleDeleteStory(storyId, confirmed)
  \/ \E k \in DOMAIN hDecks : HomeGenerateStory(k)
  \/ StoryHandleGenerate
  \/ StoryCancel
  \/ StoryResolves
  \/ StoryThrows
  \/ Reload

SpecStory == InitApp /\ [][NextStory]_vars

\* backing the library up and restoring it
NextBackup ==
  \/ HandleExport
  \/ \E data \in ImportFiles \cup Range(exportFile), confirmed \in BOOLEAN :
       HandleFileImport(data, confirmed)
  \/ \E deckId \in idsOf(hDecks), confirmed \in BOOLEAN :
       HandleDeleteDeck(deckId, confirmed)
  \/ \E wordId \in idsOf(hWords), confirmed \in BOOLEAN :
       HandleDeleteWord(wordId, confirmed)
  \/ \E storyId \in idsOf(hStories), confirmed \in BOOLEAN :
       HandleDeleteStory(storyId, confirmed)

SpecBackup == InitApp /\ [][NextBackup]_vars

\* ---------------------------------------------- records read and written back
MaxStored == 2

\* records as earlier versions of the application may have stored them
RawWords ==
  { WordCard(1, "a", Undefined, Undefined, Undefined, Undefined),
    WordCard(1, "a", "fr", "en", "d1", "pcm"),
    WordCard(2, "b", "en", Undefined, "d1", Undefined) }
RawEntries == RawWords \cup {IdString(1), IdString(2)}
RawDecks ==
  { CardDeck(21, cards, langs[1], langs[2]) :
      cards \in UNION {[1..n -> RawEntries] : n \in 0..MaxStored},
      langs \in {<<Undefined, Undefined>>, <<"fr", "en">>} }
RawStories ==
  { [id |-> 41, deckId |-> 21, targetLanguage |-> Undefined, nativeLanguage |-> Undefined],
    [id |-> 42, deckId |-> 21, targetLanguage |-> "fr", nativeLanguage |-> "en"] }

\* App renders HomePage for the first time
LoadHome ==
  /\ view = "none"
  /\ MountHome(lsDecks, lsWords, lsStories)
  /\ UNCHANGED <<storeVars, genLocals, lsDraft, nextId, invocations, editVars,
                 draftSlots, storyVars, wordsPage, callerAlive, fileVars, abandoned, studyVars>>

\* the application opened on a localStorage written by an earlier version
InitMigrate ==
  /\ lsWords \in UNION {[1..n -> RawWords] : n \in 0..MaxStored}
  /\ lsDecks \in UNION {[1..n -> RawDecks] : n \in 0..1}
  /\ lsStories \in UNION {[1..n -> RawStories] : n \in 0..1}
  /\ lsDraft = <<>>
  /\ nextId = 1
  /\ invocations = 0
  /\ GenIdle
  /\ AppIdle

\* HomePage reading the collections and writing them back
NextMigrate ==
  \/ LoadHome
  \/ \E deckId \in idsOf(hDecks), confirmed \in BOOLEAN :
       HandleDeleteDeck(deckId, confirmed)
  \/ \E wordId \in idsOf(hWords), confirmed \in BOOLEAN :
       HandleDeleteWord(wordId, confirmed)
  \/ \E storyId \in idsOf(hStories), confirmed \in BOOLEAN :
       HandleDeleteStory(storyId, confirmed)
  \/ HandleExport
  \/ Reload

SpecMigrate == InitMigrate /\ [][NextMigrate]_vars

\* ------------------------------------------------- import with failing writes
\* the three writes of handleFileImport in their order
ImportWrites == 1..3

\* HomePage.handleFileImport, confirmed, when localStorage.setItem throws
\* (QuotaExceededError) in write number failAt: the earlier writes stay, the
\* catch block reports the error and reloadData is not reached
HandleFileImportThrows(data, failAt) ==
  /\ view = "home"
  /\ UiFree
  /\ data.isObject
  /\ lsDecks' = IF failAt > 1 THEN decksToImport(data) ELSE lsDecks
  /\ lsWords' = IF failAt > 2 THEN wordsToImport(data) ELSE lsWords
  /\ lsStories' = lsStories
  /\ UNCHANGED <<homeVars, genLocals, lsDraft, nextId, invocations, view, editVars,
                 draftSlots, storyVars, wordsPage, callerAlive, fileVars, abandoned, studyVars>>

\* legacy backups: one whose first deck is empty, one whose words repeat an id
LegacyAfterEmptyFile ==
  [isObject |-> TRUE,
   decks |-> <<CardDeck(22, <<>>, "en", "zh"),
               CardDeck(21, <<ImportedWord(31, "a")>>, "en", "zh")>>,
   words |-> <<>>,
   stories |-> <<>>]
LegacyRepeatedIdFile ==
  [isObject |-> TRUE,
   decks |-> <<CardDeck(21, <<ImportedWord(31, "c"), ImportedWord(32, "b")>>, "en", "zh")>>,
   words |-> <<ImportedWord(31, "a"), ImportedWord(31, "b")>>,
   stories |-> <<>>]
\* a legacy backup whose deck lists the same card twice
LegacyDoubledCardFile ==
  [isObject |-> TRUE,
   decks |-> <<CardDeck(21, <<ImportedWord(31, "a"), ImportedWord(32, "b"),
                              ImportedWord(31, "a")>>, "en", "zh")>>,
   words |-> <<>>,
   stories |-> <<>>]
AllImportFiles ==
  ImportFiles \cup {LegacyAfterEmptyFile, LegacyRepeatedIdFile, LegacyDoubledCardFile}

\* restoring backups on a browser whose storage may be full
NextImport ==
  \/ \E data \in AllImportFiles, confirmed \in BOOLEAN : HandleFileImport(data, confirmed)
  \/ \E data \in AllImportFiles, failAt \in ImportWrites :
       HandleFileImportThrows(data, failAt)
  \/ \E deckId \in idsOf(hDecks), confirmed \in BOOLEAN :
       HandleDeleteDeck(deckId, confirmed)
  \/ \E wordId \in idsOf(hWords), confirmed \in BOOLEAN :
       HandleDeleteWord(wordId, confirmed)
  \/ \E storyId \in idsOf(hStories), confirmed \in BOOLEAN :
       HandleDeleteStory(storyId, confirmed)

SpecImport == InitApp /\ [][NextImport]_vars

\* ------------------------------------- a second batch beside an abandoned one
\* what the pages and the files hold, the abandoned call apart
uiVars == <<view, homeVars, editVars, draftSlots, storyVars, wordsPage, callerAlive,
            fileVars, studyVars>>

\* the locals of the call in flight
Locals ==
  [pc |-> pc, caller |-> caller, unique |-> uniqueInputWords, cards |-> generatedCards,
   skip |-> alreadyGeneratedWords, map |-> existingWordData, i |-> i,
   cardData |-> cardData]

\* CreationPage.handleGenerate up to its await, on a CreationPage opened after
\* the user left the page whose call is still in flight: that call goes on
\* beside the new one
HandleGenerateSecond(text, mode) ==
  /\ view = "create"
  /\ pc \in {"awaitTimer", "awaitData", "awaitSpeech"}
  /\ ~callerAlive
  /\ abandoned = <<>>
  /\ splitWords(text) # <<>>
  /\ nextId + Cardinality({k \in DOMAIN uniqueInputWords :
                              /\ k >= i
                              /\ k > i \/ pc # "awaitTimer"
                              /\ uniqueInputWords[k] \notin alreadyGeneratedWords})
            + (IF caller = "createDeck" THEN 1 ELSE 0)
            + Cardinality(Range(splitWords(text)))
            + (IF mode = "deck" THEN 1 ELSE 0) <= MaxId + 1
  /\ abandoned' = <<Locals>>
  /\ BeginCall(splitWords(text), "en", "zh",
               IF mode = "deck" THEN "createDeck" ELSE "createWords",
               IF mode = "deck" THEN 1 ELSE 0)
  /\ callerAlive' = TRUE
  /\ UNCHANGED <<storeVars, invocations, view, homeVars, editVars, draftSlots,
                 storyVars, wordsPage, fileVars, studyVars>>

\* the loop of the abandoned call from index k up to its next await, or to
\* the return
ContinueAbandoned(ab, k, cards, map, draftNow, id) ==
  LET j == NextIndex(k, ab.unique, ab.skip)
      next == [ab EXCEPT !.i = j, !.map = map, !.cards = cards,
                         !.cardData = NoCardData]
  IN
  IF j > Len(ab.unique)
  THEN /\ lsDraft' = draftAfterLoop(draftNow)
       /\ nextId' = id
       /\ abandoned' = <<[next EXCEPT !.pc = "returned"]>>
  ELSE IF ab.unique[j] \in DOMAIN map
  THEN /\ lsDraft' = draftAfterReuse(draftNow, ab.unique,
                                     Append(cards, reusedCard(id, map[ab.unique[j]])))
       /\ nextId' = id + 1
       /\ abandoned' = <<[next EXCEPT
                            !.pc = "awaitTimer",
                            !.cards = Append(cards, reusedCard(id, map[ab.unique[j]]))]>>
  ELSE /\ lsDraft' = draftNow
       /\ nextId' = id
       /\ abandoned' = <<[next EXCEPT !.pc = "awaitData"]>>

\* the 50 ms timer of the abandoned call fires
AbandonedTimerResolves ==
  /\ abandoned # <<>>
  /\ abandoned[1].pc = "awaitTimer"
  /\ ContinueAbandoned(abandoned[1], abandoned[1].i + 1, abandoned[1].cards,
                       abandoned[1].map, lsDraft, nextId)
  /\ UNCHANGED <<storeVars, genLocals, invocations, uiVars>>

\* generateFlashcardDataForWord of the abandoned call resolves
AbandonedDataResolves ==
  /\ abandoned # <<>>
  /\ abandoned[1].pc = "awaitData"
  /\ abandoned' = <<[abandoned[1] EXCEPT
                       !.pc = "awaitSpeech",
                       !.cardData = generateFlashcardDataForWord(
                                      abandoned[1].unique[abandoned[1].i], "en", "zh")]>>
  /\ UNCHANGED <<storeVars, genLocals, lsDraft, nextId, invocations, uiVars>>

\* generateFlashcardDataForWord of the abandoned call throws: the catch block
\* of handleGenerate sets the state of a page that is gone
AbandonedDataThrows ==
  /\ abandoned # <<>>
  /\ abandoned[1].pc = "awaitData"
  /\ abandoned' = <<>>
  /\ UNCHANGED <<storeVars, genLocals, lsDraft, nextId, invocations, uiVars>>

\* generateSpeech of the abandoned call resolves: the card is pushed, the
\* draft saved, and the loop goes on
AbandonedSpeechResolves(audio) ==
  LET ab == abandoned[1]
      card == newCard(nextId, ab.cardData, audio)
      cards == Append(ab.cards, card)
      map == MapSet(ab.map, ToLowerCase(ab.unique[ab.i]), StripId(card))
  IN
  /\ abandoned # <<>>
  /\ ab.pc = "awaitSpeech"
  /\ ContinueAbandoned(ab, ab.i + 1, cards, map, draftToSave(ab.unique, cards),
                       nextId + 1)
  /\ UNCHANGED <<storeVars, genLocals, invocations, uiVars>>

\* CreationPage.handleGenerate after the await (lines 94-112), for the
\* abandoned call: the words are saved and App opens the edit page
AbandonedDone ==
  LET ab == abandoned[1]
      words == mergeWords(getWords, ab.cards)
      newDeck == CardDeck(nextId, idStrings(ab.cards), "en", "zh")
  IN
  /\ abandoned # <<>>
  /\ ab.pc = "returned"
  /\ lsWords' = words
  /\ IF ab.caller = "createDeck"
     THEN /\ nextId' = nextId + 1
          /\ \E accept \in BOOLEAN : MountEditDeck(newDeck, words, accept)
          /\ UnmountEditWords
     ELSE /\ nextId' = nextId
          /\ \E accept \in BOOLEAN : MountEditWords(ab.cards, accept)
          /\ UnmountEditDeck
  /\ UnmountHome
  /\ callerAlive' = FALSE
  /\ abandoned' = <<>>
  /\ UNCHANGED <<lsDecks, lsStories, genLocals, lsDraft, invocations, draftSlots,
                 storyVars, fileVars, studyVars>>

\* two batches started one after the other from CreationPage
NextTwoBatches ==
  \/ OnCreate
  \/ CreationBack
  \/ \E text \in AppInputs, mode \in {"deck", "words"} : HandleGenerate(text, mode, TRUE)
  \/ \E text \in AppInputs, mode \in {"deck", "words"} : HandleGenerateSecond(text, mode)
  \/ TimerResolves
  \/ DataResolves
  \/ DataThrows
  \/ SpeechResolves("pcm")
  \/ GenerateDone
  \/ GenerateFailed
  \/ AbandonedTimerResolves
  \/ AbandonedDataResolves
  \/ AbandonedDataThrows
  \/ AbandonedSpeechResolves("pcm")
  \/ AbandonedDone
  \/ SaveWords
  \/ CancelWords
  \/ SaveDeck
  \/ CancelDeck

SpecTwoBatches == InitApp /\ [][NextTwoBatches]_vars

\* ------------------------------------------------ editing the cards of a deck
\* EditDeckPage.handleCardUpdate for the displayed card with the id: the card
\* is written to Words at once (lines 85-96)
HandleCardUpdate(wordId) ==
  LET allWords == getWords
      found == {k \in DOMAIN allWords : allWords[k].id = wordId}
      wordIndex == CHOOSE k \in found : \A j \in found : k <= j
  IN
  /\ view = "editDeck"
  /\ UiFree
  /\ wordId \in displayedIds
  /\ lsWords' = IF found # {}
                THEN [allWords EXCEPT ![wordIndex] = editedCard(@)]
                ELSE lsWords
  /\ UNCHANGED <<lsDecks, lsStories, genLocals, lsDraft, nextId, invocations, view,
                 homeVars, editVars, draftSlots, storyVars, wordsPage, callerAlive,
                 fileVars, abandoned, studyVars>>

\* one deck created and edited: its cards changed, words added and removed
NextDeckEdit ==
  \/ OnCreate
  \/ \E text \in DraftInputs : HandleGenerate(text, "deck", TRUE)
  \/ TimerResolves
  \/ DataResolves
  \/ DataThrows
  \/ SpeechResolves("pcm")
  \/ GenerateDone
  \/ GenerateFailed
  \/ \E wordId \in shownIds : HandleCardUpdate(wordId)
  \/ \E wordId \in shownIds : HandleRemoveWordFromDeck(wordId)
  \/ \E text \in AppInputs : HandleAddWords(text)
  \/ AddWordsDone
  \/ AddWordsFailed
  \/ SaveDeck
  \/ CancelDeck
  \/ \E k \in DOMAIN hDecks, accept \in BOOLEAN : HomeEditDeck(k, accept)

SpecDeckEdit == InitApp /\ [][NextDeckEdit]_vars

\* ------------------------------------------------------------- the study page
\* shuffleArray: one of the orders Math.random can give (lines 13-20)
shuffleArray(array) ==
  {[k \in DOMAIN array |-> array[p[k]]] : p \in Permutations(DOMAIN array)}

\* const currentCard = sessionQueue[currentIndex], none when out of range
\* (line 39); currentIndex counts from 0
currentCard ==
  IF currentIndex + 1 \in DOMAIN sessionQueue
  THEN <<sessionQueue[currentIndex + 1]>> ELSE <<>>

\* HomePage: the study button of a deck, disabled on an empty deck, which is
\* App.handleStudyDeck; StudyPage mounts and its effect fills the queue
HomeStudyDeck(k) ==
  /\ view = "home"
  /\ UiFree
  /\ k \in DOMAIN hDecks
  /\ Len(hDecks[k].cards) # 0
  /\ view' = "study"
  /\ IF Len(hDecks[k].cards) > 0
     THEN /\ sessionQueue' \in shuffleArray(hDecks[k].cards)
          /\ sessionComplete' = FALSE
     ELSE /\ sessionQueue' = <<>>
          /\ sessionComplete' = TRUE
  /\ learningQueue' = <<>>
  /\ currentIndex' = 0
  /\ isFlipped' = FALSE
  /\ isTransitioning' = FALSE
  /\ advanceTimer' = <<>>
  /\ UnmountHome
  /\ UNCHANGED <<storeVars, genLocals, lsDraft, nextId, invocations, editVars,
                 draftSlots, storyVars, wordsPage, callerAlive, fileVars, abandoned>>

\* the card and its buttons are rendered (lines 76-98)
StudyShown ==
  /\ view = "study"
  /\ ~sessionComplete
  /\ currentCard # <<>>

\* StudyPage.handleFlip (lines 72-75)
HandleFlip ==
  /\ StudyShown
  /\ ~isFlipped
  /\ ~isTransitioning
  /\ isFlipped' = TRUE
  /\ UNCHANGED <<storeVars, genLocals, lsDraft, nextId, invocations, view, homeVars,
                 editVars, draftSlots, storyVars, wordsPage, callerAlive, fileVars,
                 abandoned, sessionQueue, learningQueue, currentIndex, sessionComplete,
                 isTransitioning, advanceTimer>>

\* advanceToNextCard up to setTimeout: the callback keeps currentIndex,
\* sessionQueue and learningQueue of the render it was made in (lines 41-45)
advanceToNextCard ==
  /\ isTransitioning' = TRUE
  /\ isFlipped' = FALSE
  /\ advanceTimer' = <<[currentIndex |-> currentIndex, sessionQueue |-> sessionQueue,
                        learningQueue |-> learningQueue]>>

\* StudyPage.handleMarkLearning (lines 61-65)
HandleMarkLearning ==
  /\ StudyShown
  /\ isFlipped
  /\ ~isTransitioning
  /\ learningQueue' = Append(learningQueue, currentCard[1])
  /\ advanceToNextCard
  /\ UNCHANGED <<storeVars, genLocals, lsDraft, nextId, invocations, view, homeVars,
                 editVars, draftSlots, storyVars, wordsPage, callerAlive, fileVars,
                 abandoned, sessionQueue, currentIndex, sessionComplete>>

\* StudyPage.handleMarkKnown (lines 67-70)
HandleMarkKnown ==
  /\ StudyShown
  /\ isFlipped
  /\ ~isTransitioning
  /\ advanceToNextCard
  /\ UNCHANGED <<storeVars, genLocals, lsDraft, nextId, invocations, view, homeVars,
                 editVars, draftSlots, storyVars, wordsPage, callerAlive, fileVars,
                 abandoned, sessionQueue, learningQueue, currentIndex, sessionComplete>>

\* variant: the next round starts without setCurrentIndex(0)
AdvanceTimerFires_noReset ==
  LET c == advanceTimer[1] IN
  /\ view = "study"
  /\ advanceTimer # <<>>
  /\ IF c.currentIndex + 1 < Len(c.sessionQueue)
     THEN /\ currentIndex' = currentIndex + 1
          /\ UNCHANGED <<sessionQueue, learningQueue, sessionComplete>>
     ELSE IF Len(c.learningQueue) > 0
     THEN /\ sessionQueue' \in shuffleArray(c.learningQueue)
          /\ learningQueue' = <<>>
          /\ UNCHANGED <<currentIndex, sessionComplete>>
     ELSE /\ sessionComplete' = TRUE
          /\ UNCHANGED <<sessionQueue, learningQueue, currentIndex>>
  /\ isTransitioning' = FALSE
  /\ advanceTimer' = <<>>
  /\ UNCHANGED <<storeVars, genLocals, lsDraft, nextId, invocations, view, homeVars,
                 editVars, draftSlots, storyVars, wordsPage, callerAlive, fileVars,
                 abandoned, isFlipped>>
\* the callback of advanceToNextCard runs, 300 ms after the answer (lines 45-58)
AdvanceTimerFires ==
  LET c == advanceTimer[1] IN
  /\ view = "study"
  /\ advanceTimer # <<>>
  /\ IF c.currentIndex + 1 < Len(c.sessionQueue)
     THEN /\ currentIndex' = currentIndex + 1
          /\ UNCHANGED <<sessionQueue, learningQueue, sessionComplete>>
     ELSE IF Len(c.learningQueue) > 0
     THEN /\ sessionQueue' \in shuffleArray(c.learningQueue)
          /\ learningQueue' = <<>>
          /\ currentIndex' = 0
          /\ UNCHANGED sessionComplete
     ELSE /\ sessionComplete' = TRUE
          /\ UNCHANGED <<sessionQueue, learningQueue, currentIndex>>
  /\ isTransitioning' = FALSE
  /\ advanceTimer' = <<>>
  /\ UNCHANGED <<storeVars, genLocals, lsDraft, nextId, invocations, view, homeVars,
                 editVars, draftSlots, storyVars, wordsPage, callerAlive, fileVars,
                 abandoned, isFlipped>>

\* onEndSession: setStudyingDeck(null); navigateTo('home'); the page unmounts
\* and a pending callback acts on a component that is gone
EndSession ==
  /\ view = "study"
  /\ GoHome(lsDecks, lsWords, lsStories)
  /\ UnmountStudy
  /\ UNCHANGED <<storeVars, genLocals, lsDraft, nextId, invocations, draftSlots,
                 storyVars, fileVars, abandoned>>

\* decks restored from a backup and studied
NextStudy ==
  \/ \E data \in ImportFiles, confirmed \in BOOLEAN : HandleFileImport(data, confirmed)
  \/ \E k \in DOMAIN hDecks : HomeStudyDeck(k)
  \/ HandleFlip
  \/ HandleMarkLearning
  \/ HandleMarkKnown
  \/ AdvanceTimerFires
  \/ EndSession

SpecStudy == InitApp /\ [][NextStudy]_vars

\* the same, with a user who goes on answering and a timer that fires
SpecStudyLive ==
  /\ SpecStudy
  /\ WF_vars(HandleFlip)
  /\ WF_vars(HandleMarkKnown)
  /\ WF_vars(AdvanceTimerFires)

\* ------------------------------------------------- properties, generator
InvocationEnded == pc \in {"returned", "failed"}
HadDraft == draftAtStart # <<>>
\* the checkpoint found at the start was for the same set of words
MatchAtStart ==
  /\ HadDraft
  /\ Range(draftAtStart[1].inputWords) = Range(uniqueInputWords)
StaleAtStart ==
  /\ HadDraft
  /\ Range(draftAtStart[1].inputWords) # Range(uniqueInputWords)
CompletedAtStart == IF HadDraft THEN wordsOfCards(draftAtStart[1].generatedCards) ELSE {}
AdoptedCount == IF MatchAtStart THEN Len(draftAtStart[1].generatedCards) ELSE 0
LastCard == generatedCards[Len(generatedCards)]

\* C1: an invocation whose word set equals the checkpoint's makes no data and
\* no speech call for a word that has a card in the checkpoint, and, when it
\* runs to its end, exactly one data call for each other word of U that was
\* not in the known-word lookup; the inputs range over every order.
C1_ResumeSkipsCompleted ==
  (pc # "idle" /\ MatchAtStart) =>
     /\ \A w \in CompletedAtStart : dataCalls[w] = 0 /\ speechCalls[w] = 0
     /\ pc = "returned" =>
          \A w \in Range(uniqueInputWords) \ CompletedAtStart :
             w \notin knownAtStart => dataCalls[w] = 1

C1_Witness ==
  /\ pc = "returned"
  /\ MatchAtStart
  /\ draftAtStart[1].inputWords # uniqueInputWords
  /\ CompletedAtStart # {}
  /\ \E w \in Range(uniqueInputWords) \ CompletedAtStart : dataCalls[w] = 1

C3_ReturnClearsCheckpoint == pc = "returned" => lsDraft = <<>>

C3_Witness == pc = "returned" /\ StaleAtStart /\ checkpointed = 0

\* the stored Words record and the first deck-embedded record of the word
WordsRecordOf(w) ==
  LET k == CHOOSE k \in DOMAIN getWords :
             /\ ToLowerCase(getWords[k].word) = w
             /\ \A j \in 1..(k - 1) : ToLowerCase(getWords[j].word) # w
  IN getWords[k]
EmbeddedRecordOf(w) ==
  LET embedded == FlattenCards(getDecks)
      k == CHOOSE k \in DOMAIN embedded :
             /\ ToLowerCase(embedded[k].word) = w
             /\ \A j \in 1..(k - 1) : ToLowerCase(embedded[j].word) # w
  IN embedded[k]
InBothStores(w) ==
  /\ w \in wordsOfCards(getWords)
  /\ w \in wordsOfCards(FlattenCards(getDecks))

NoStaleCardAdopted ==
  (pc # "idle" /\ StaleAtStart) =>
     Range(generatedCards) \cap Range(draftAtStart[1].generatedCards) = {}

\* C5 as stated: no card of a checkpoint for another word set is adopted, and
\* when the invocation has ended, by return or by error, the slot no longer
\* holds that checkpoint.
C5_Original ==
  /\ NoStaleCardAdopted
  /\ (InvocationEnded /\ StaleAtStart) => lsDraft # draftAtStart

\* C5: no card of a checkpoint for another word set is adopted; the slot no
\* longer holds that checkpoint once the invocation has returned or has
\* saved a remotely generated word, and it still holds it when the
\* invocation ends by an error before that.
C5_StaleNotAdopted ==
  /\ NoStaleCardAdopted
  /\ (StaleAtStart /\ (pc = "returned" \/ checkpointed > 0)) => lsDraft # draftAtStart
  /\ (StaleAtStart /\ pc = "failed" /\ checkpointed = 0) => lsDraft = draftAtStart

C5_Witness ==
  /\ StaleAtStart
  /\ pc = "failed"
  /\ checkpointed > 0
  /\ Range(uniqueInputWords) \cap CompletedAtStart # {}

\* C6: an invocation that returns gives exactly one card for each word of U,
\* also after a resumption and with words reused from the store.
C6_OneCardPerWord ==
  pc = "returned" =>
     /\ Len(generatedCards) = Len(uniqueInputWords)
     /\ \A w \in Range(uniqueInputWords) :
          Cardinality({k \in DOMAIN generatedCards :
                         ToLowerCase(generatedCards[k].word) = w}) = 1

C6_Witness ==
  /\ pc = "returned"
  /\ MatchAtStart
  /\ AdoptedCount > 0
  /\ checkpointed > 0
  /\ Len(generatedCards) = 3
  /\ \E k \in DOMAIN generatedCards : generatedCards[k].definitions = "d1"

\* ------------------------------------------------------- the stored library
\* a membership entry is the id of a card of the Words collection
Resolves(entry, words) == entry.kind = "str" /\ entry.chars \in idsOf(words)

\* every membership entry of the decks is an id string
CurrentFormat(decks) ==
  \A k \in DOMAIN decks : \A n \in DOMAIN decks[k].cards : decks[k].cards[n].kind = "str"

\* C7: in every state reached through the user operations, every entry of every
\* stored deck's membership list is the id of a card present in the Words
\* collection.  The code does not keep this: HomePage holds the decks as getDecks
\* returns them, with every id string spread into an object, and writes them back.
C7_Original ==
  \A k \in DOMAIN lsDecks : \A n \in DOMAIN lsDecks[k].cards :
    Resolves(lsDecks[k].cards[n], lsWords)

\* C8: handleDeleteWord(w) removes the card w from the Words collection, removes
\* w from the membership list of every stored deck, leaves every other entry in
\* its order and deletes no deck.  The code does not do this for a deck stored
\* in the current format.
C8_Original ==
  [][\A w \in idsOf(hWords) :
       HandleDeleteWord(w, TRUE) =>
         /\ w \notin idsOf(lsWords')
         /\ Len(lsDecks') = Len(lsDecks)
         /\ \A k \in DOMAIN lsDecks :
              /\ lsDecks'[k].id = lsDecks[k].id
              /\ lsDecks'[k].cards =
                   SelectSeq(lsDecks[k].cards, LAMBDA e : e # IdString(w))]_vars

\* C9: handleDeleteDeck(D) removes the deck D and the stories whose deckId is D,
\* keeps every other deck and story (compared as getDecks and getStories return
\* them) and leaves the Words collection as it was.  The code loses a story
\* that was saved while HomePage was already showing.
C9_Original ==
  [][\A d \in idsOf(hDecks) :
       HandleDeleteDeck(d, TRUE) =>
         /\ readDecks(lsDecks') = SelectSeq(readDecks(lsDecks), LAMBDA x : x.id # d)
         /\ readStories(lsStories') =
              SelectSeq(readStories(lsStories), LAMBDA x : x.deckId # d)
         /\ lsWords' = lsWords]_vars

\* C10: importing the file an export wrote gives back the three collections as
\* they were stored at the export, when the stored decks were in the current
\* format.  The code exports the decks as getDecks returns them, and the import
\* takes the spread id strings for embedded cards without an id.
C10_Original ==
  [][(/\ exportFile # <<>>
      /\ CurrentFormat(storeAtExport[1].decks)
      /\ HandleFileImport(exportFile[1], TRUE)) =>
        /\ readDecks(lsDecks') = readDecks(storeAtExport[1].decks)
        /\ readWords(lsWords') = readWords(storeAtExport[1].words)
        /\ readStories(lsStories') = readStories(storeAtExport[1].stories)]_vars

\* ------------------------------------------------------------ the migration
\* every record of the three collections, as stored and as HomePage holds it
MigrationInputsWords == Range(lsWords) \cup Range(hWords)
MigrationInputsDecks == Range(lsDecks) \cup Range(hDecks)
MigrationInputsStories == Range(lsStories) \cup Range(hStories)

\* C11: applying the migration twice to a WordCard, a Deck or a Story record
\* (records lacking fields and decks with id-string membership included) gives
\* the same result as applying it once.
C11_MigrationIdempotent ==
  /\ \A w \in MigrationInputsWords :
       migrateWordCard(migrateWordCard(w)) = migrateWordCard(w)
  /\ \A d \in MigrationInputsDecks :
       /\ migrateDeck(migrateDeck(d)) = migrateDeck(d)
       /\ \A n \in DOMAIN d.cards :
            migrateWordCard(migrateWordCard(d.cards[n])) = migrateWordCard(d.cards[n])
  /\ \A s \in MigrationInputsStories :
       migrateStory(migrateStory(s)) = migrateStory(s)

\* a deck with an id-string entry and a field-less card was read, written back
\* by a delete of a word, and read again after a reload
C11_Witness ==
  /\ view = "home"
  /\ hDecks = readDecks(lsDecks)
  /\ \E k \in DOMAIN lsDecks : \E n \in DOMAIN lsDecks[k].cards :
       lsDecks[k].cards[n].kind = "obj" /\ lsDecks[k].cards[n].chars # 0
  /\ \E k \in DOMAIN lsWords : lsWords[k].definitions = "[]"

\* ------------------------------------------------------------------ import
\* one run of handleFileImport on a file of the model, whatever its outcome
ImportAttempt(data) ==
  \/ \E confirmed \in BOOLEAN : HandleFileImport(data, confirmed)
  \/ \E failAt \in ImportWrites : HandleFileImportThrows(data, failAt)

\* C12: an import attempt either replaces all three collections with the
\* payload's content or leaves all three as they were.  The code makes three
\* separate writes and keeps the earlier ones when a later one throws.
C12_Original ==
  [][\A data \in AllImportFiles :
       ImportAttempt(data) =>
         \/ /\ lsDecks' = decksToImport(data)
            /\ lsWords' = wordsToImport(data)
            /\ lsStories' = data.stories
         \/ /\ lsDecks' = lsDecks
            /\ lsWords' = lsWords
            /\ lsStories' = lsStories]_vars

\* the embedded full cards of the payload's decks, in deck order
EmbeddedCards(data) == SelectSeq(FlattenCards(data.decks), LAMBDA c : c.kind = "obj")

\* the first card of each id in the list
FirstOfEachId(cards) ==
  { cards[k] : k \in {j \in DOMAIN cards : \A h \in 1..(j - 1) : cards[h].id # cards[j].id} }

\* C13: after a confirmed import of a payload in which a deck holds embedded
\* full cards, every stored membership entry is a card id, and Words holds for
\* each id among the payload's words and the embedded cards exactly one card,
\* the first occurrence, the payload's words before the embedded cards.  The
\* code starts the upgrade only when the first card of the first deck is an
\* object, and builds its map so that the last of repeated word ids wins.
C13_Original ==
  [][\A data \in AllImportFiles :
       (EmbeddedCards(data) # <<>> /\ HandleFileImport(data, TRUE)) =>
         /\ CurrentFormat(lsDecks')
         /\ Range(lsWords') = FirstOfEachId(data.words \o EmbeddedCards(data))
         /\ Len(lsWords') = Cardinality(idsOf(data.words \o EmbeddedCards(data)))]_vars

\* ---------------------------------------------------------------------------
\* properties, drafts of the edit pages
\* ---------------------------------------------------------------------------

\* the draft slot of deck d holds a draft of that very deck
DeckDraftMatches(d) ==
  /\ lsDeckDraft[d.id] # <<>>
  /\ lsDeckDraft[d.id][1].id = d.id

\* the words draft was taken from the same set of initial word ids
WordsDraftMatches(cards) ==
  /\ lsWordsDraft # <<>>
  /\ Len(lsWordsDraft[1].initialIds) = Len(cards)
  /\ {lsWordsDraft[1].initialIds[k] : k \in DOMAIN lsWordsDraft[1].initialIds}
       = idsOf(cards)

GenerationStep ==
  \/ \E text \in AppInputs, mode \in {"deck", "words"}, titled \in BOOLEAN :
       HandleGenerate(text, mode, titled)
  \/ \E text \in AppInputs : HandleAddWords(text)
  \/ TimerResolves
  \/ DataResolves
  \/ DataThrows
  \/ \E audio \in {"pcm", Undefined} : SpeechResolves(audio)
  \/ GenerateFailed
  \/ AddWordsFailed

\* C16: a deck creation, word creation or add-words whose generation fails
\* writes nothing: from its first step to the end of its catch block Decks,
\* Words and Stories stay as they are, and so does the deck on the edit page.
C16_FailedGenerationWritesNothing ==
  [][GenerationStep => UNCHANGED <<lsDecks, lsWords, lsStories, deck>>]_vars

\* add-words has failed after completing a card, the edit page still open
C16_Witness ==
  /\ pc = "failed"
  /\ caller = "addWords"
  /\ generatedCards # <<>>
  /\ callerAlive
  /\ view = "editDeck"

\* ---------------------------------------------------------------------------
\* properties, order of processing and checkpoints
\* ---------------------------------------------------------------------------

\* processAndGenerateWords is called with words
InvokedWith(words) ==
  /\ invocations' = invocations + 1
  /\ \E langs \in LangPairs : Begin(words, langs[1], langs[2], "direct", 0)

\* C17: the words are processed one at a time in the order of their first
\* occurrence in the input: the list the loop walks is the normalised input
\* in input order, whatever the checkpoint slot held, and each completed
\* await moves the loop index forward.
C17_Original ==
  [][ /\ \A words \in InputLists :
           InvokedWith(words) => uniqueInputWords' = Normalize(words)
      /\ (TimerResolves \/ \E audio \in {"pcm", Undefined} : SpeechResolves(audio))
           => i' > i
    ]_vars

\* a step of processAndGenerateWords that completes at least one word
CompletesWord ==
  /\ pc' \in {"awaitTimer", "awaitData", "awaitSpeech"}
  /\ Len(generatedCards') > Len(generatedCards)
  /\ pc # "idle" \/ Len(generatedCards') > AdoptedCount'

RECURSIVE IsSubsequence(_, _)
\* the words of sub occur in list in the same order
IsSubsequence(sub, list) ==
  IF sub = <<>> THEN TRUE
  ELSE IF list = <<>> THEN FALSE
  ELSE IF Head(sub) = Head(list) THEN IsSubsequence(Tail(sub), Tail(list))
  ELSE IsSubsequence(sub, Tail(list))

\* the words of the cards, in the order of the cards
wordList(cards) == [k \in DOMAIN cards |-> ToLowerCase(cards[k].word)]

\* C19: whenever the slot holds a checkpoint, the words of its completed
\* list are an order-respecting subsequence of its requested list.
C19_Original ==
  lsDraft # <<>> =>
    IsSubsequence(wordList(lsDraft[1].generatedCards), lsDraft[1].inputWords)

\* C20: an invocation whose input normalises to the empty list returns the
\* empty list at once, makes no remote call and leaves the checkpoint slot
\* as it found it.
C20_Original ==
  [][\A words \in InputLists :
       (Normalize(words) = <<>> /\ InvokedWith(words)) =>
         /\ pc' = "returned"
         /\ generatedCards' = <<>>
         /\ dataCalls' = NoCalls
         /\ speechCalls' = NoCalls
         /\ lsDraft' = lsDraft]_vars

\* ---------------------------------------------------------------------------
\* properties, reading the decks back
\* ---------------------------------------------------------------------------

\* C21: what getDecks returns for stored decks in the current format has the
\* stored decks' membership: the same id strings in the same order.
C21_Original ==
  CurrentFormat(lsDecks) =>
    \A k \in DOMAIN lsDecks :
      /\ getDecks[k].id = lsDecks[k].id
      /\ getDecks[k].cards = lsDecks[k].cards

\* ---------------------------------------------------------------------------
\* properties, deck membership
\* ---------------------------------------------------------------------------

\* C22: in every stored deck the entries of the membership list are pairwise
\* distinct.
C22_Original ==
  \A k \in DOMAIN lsDecks :
    \A m, n \in DOMAIN lsDecks[k].cards :
      m # n => lsDecks[k].cards[m] # lsDecks[k].cards[n]

\* ---------------------------------------------------------------------------
\* properties, the auto-save timers
\* ---------------------------------------------------------------------------

\* a step that changes the state of the open edit page
EditStateMutates ==
  \/ view = "editDeck" /\ view' = "editDeck" /\ deck' # deck
  \/ view = "editWords" /\ view' = "editWords" /\ wordsEdit' # wordsEdit

\* C23: a mutation of the edit state replaces the pending draft write by one
\* for the new state, so the pending write always carries the page's current
\* state, and what a timer writes to the slot is the state after the most
\* recent mutation.
C23_LastMutationWins ==
  [][ /\ EditStateMutates =>
           /\ view' = "editDeck" => debounce' = deck'
           /\ view' = "editWords" =>
                wordsDebounce' = <<wordsDraft(editingWords'[1], wordsEdit'[1])>>
      /\ debounce' # <<>> => debounce' = deck'
      /\ wordsDebounce' # <<>> =>
           wordsDebounce' = <<wordsDraft(editingWords'[1], wordsEdit'[1])>>
      /\ DebounceFires => lsDeckDraft'[deck[1].id] = deck
      /\ WordsDebounceFires =>
           lsWordsDraft' = <<wordsDraft(editingWords[1], wordsEdit[1])>>
    ]_vars

\* a card was edited before the timer armed at mount had fired: the slot is
\* still empty and the pending write carries the edited card
C23_Witness ==
  /\ view = "editWords"
  /\ lsWordsDraft = <<>>
  /\ wordsEdit # editingWords
  /\ wordsDebounce = <<wordsDraft(editingWords[1], wordsEdit[1])>>

\* C24: a draft is written only for an edit state the user has changed: no
\* timer writes a slot while the page still shows the state it was opened
\* with.
C24_Original ==
  [][ /\ DebounceFires => deck # initialDeck
      /\ WordsDebounceFires => wordsEdit # editingWords
    ]_vars

\* ---------------------------------------------------------------------------
\* properties, two batches and one checkpoint slot
\* ---------------------------------------------------------------------------

\* a step of the abandoned call inside processAndGenerateWords
AbandonedStep ==
  \/ AbandonedTimerResolves
  \/ AbandonedDataResolves
  \/ AbandonedDataThrows
  \/ AbandonedSpeechResolves("pcm")

\* a second batch with another word set is in flight beside the abandoned one
SecondBatchRuns ==
  /\ abandoned # <<>>
  /\ pc \in {"awaitTimer", "awaitData", "awaitSpeech"}
  /\ Range(uniqueInputWords) # Range(abandoned[1].unique)

\* C25: while a second batch with another word set is in flight, no step of
\* the abandoned call writes or deletes the checkpoint slot, and when the
\* second batch fails after generating words the slot holds its word list and
\* the cards it had completed at its last generated word.
C25_Original ==
  [][ /\ (SecondBatchRuns /\ AbandonedStep) => lsDraft' = lsDraft
      /\ (abandoned # <<>> /\ DataThrows /\ checkpointed > 0) =>
           /\ lsDraft # <<>>
           /\ lsDraft[1].inputWords = uniqueInputWords
           /\ lsDraft[1].generatedCards = SubSeq(generatedCards, 1, checkpointed)
    ]_vars

\* ---------------------------------------------------------------------------
\* properties, stories of deleted decks
\* ---------------------------------------------------------------------------

\* C26: no story is stored for a deck that is not stored: when the story call
\* resolves, the deck it was started for is still in Decks, and every story
\* in Stories then names a stored deck.
C26_Original ==
  [][StoryResolves =>
       /\ storyReq[1].id \in idsOf(lsDecks)
       /\ \A k \in DOMAIN lsStories' : lsStories'[k].deckId \in idsOf(lsDecks')
    ]_vars

\* ---------------------------------------------------------------------------
\* properties, language codes of the returned cards
\* ---------------------------------------------------------------------------

\* C27: every card an invocation returns carries the target and the native
\* language code the invocation was called with.
C27_Original ==
  pc = "returned" =>
    \A k \in DOMAIN generatedCards :
      /\ generatedCards[k].targetLanguage = targetLanguage
      /\ generatedCards[k].nativeLanguage = nativeLanguage

\* ---------------------------------------------------------------------------
\* properties, cancelling a deck edit
\* ---------------------------------------------------------------------------

\* what the user does on the open deck page, short of saving
DeckSessionStep ==
  \/ \E wordId \in shownIds : HandleCardUpdate(wordId)
  \/ \E wordId \in shownIds : HandleRemoveWordFromDeck(wordId)
  \/ \E text \in AppInputs : HandleAddWords(text)
  \/ AddWordsDone /\ callerAlive
  \/ AddWordsFailed /\ callerAlive
  \/ CancelDeck

\* C28: a deck edit that ends with cancel leaves Decks, Words and Stories as
\* they were when the page opened: nothing the user does on the page short
\* of saving, cancel included, writes one of the three collections.
C28_Original ==
  [][DeckSessionStep => UNCHANGED <<lsDecks, lsWords, lsStories>>]_vars

\* ---------------------------------------------------------------------------
\* properties, the study session
\* ---------------------------------------------------------------------------

\* the callback that runs was made on the last card of the round
RoundEnds ==
  /\ AdvanceTimerFires
  /\ advanceTimer[1].currentIndex + 1 >= Len(advanceTimer[1].sessionQueue)

\* C29: every card marked 'learning' during a round is in the queue of the
\* next round, the last card of the round included, and the session is marked
\* complete only at the end of a round in which no card was marked 'learning'.
\* learningQueue is emptied when a round starts, so at the end of the round it
\* holds the cards marked in it.
C29_Original ==
  [][ /\ (RoundEnds /\ ~sessionComplete') =>
            \A k \in DOMAIN learningQueue :
              \E j \in DOMAIN sessionQueue' : sessionQueue'[j] = learningQueue[k]
      /\ (~sessionComplete /\ sessionComplete') =>
            RoundEnds /\ learningQueue = <<>> ]_vars

\* while the session is not complete the page has a current card
StudyIndexValid ==
  (view = "study" /\ ~sessionComplete) =>
     /\ currentIndex >= 0
     /\ currentIndex < Len(sessionQueue)

\* from some point on no card is answered 'learning'
OnlyKnownFromSomePoint == <>[][~HandleMarkLearning]_vars

====
